---- MODULE Spec2Model ----
(***************************************************************************)
(* Recipe resolver microservice: the lexical similarity scorer (package    *)
(* nlp), the three-tier resolution policy (resolveRecipe in main.go) and   *)
(* the generation client (package generation).                             *)
(*                                                                         *)
(* Text is modelled at character level: a Go string is a tuple of          *)
(* one-character strings, so that tokenizing, case folding and title       *)
(* annotation are computed rather than assumed.  A float64 quotient of two *)
(* small integers is kept as the exact fraction [num, den]; for the        *)
(* operands that occur (counts of a handful of tokens) float64 division is *)
(* correctly rounded and monotone, so comparing the fractions by cross     *)
(* multiplication agrees with comparing the float64 values, including      *)
(* against the literal 0.3 (3.0/10.0 rounds to the same double as 0.3).    *)
(***************************************************************************)
EXTENDS Integers, Sequences, FiniteSets, TLC

VARIABLES
    recipesDB,      \* the corpus: package variable recipesDB of main.go
    env,            \* the process environment read by os.Getenv
    uuidCount,      \* number of uuid.New() calls so far; the next id is fresh
    calls,          \* number of resolveRecipe calls started so far
    pc,             \* per request: position inside resolveRecipe / GenerateRecipe
    query,          \* per request: argument of resolveRecipe
    tried,          \* per request: the tiers entered so far, in order
    bestSim, best,  \* per request: locals of the similarity loop
    deepseekKey,    \* per request: local of GenerateRecipe, read once per call
    sent,           \* per request: outbound HTTP requests handed to HTTPClient.Do
    resp,           \* per request: what HTTPClient.Do came back with
    gen,            \* per request: the triple GenerateRecipe returned
    tier,           \* per request: terminal state of the resolution
    result,         \* per request: the pair resolveRecipe returned
    simA, simB,     \* arguments of the JaccardSimilarity call under test
    simPc,          \* "call" before the scorer has run, "done" after, "off" in Spec
    simAB, simBA,   \* JaccardSimilarity(simA, simB) and JaccardSimilarity(simB, simA)
    fenceIn,        \* argument of the stripCodeFences call under test
    fencePc,        \* "call" before stripCodeFences has run, "done" after, "off" otherwise
    fenceOut        \* stripCodeFences(fenceIn)

simVars == <<simA, simB, simPc, simAB, simBA>>

fenceVars == <<fenceIn, fencePc, fenceOut>>

resolverVars == <<recipesDB, env, uuidCount, calls, pc, query, tried, bestSim, best,
                  deepseekKey, sent, resp, gen, tier, result>>

----------------------------------------------------------------------------
(* Characters and strings *)

\* unicode.ToLower on one character
Lower(c) ==
    CASE c = "A" -> "a"
      [] c = "B" -> "b"
      [] c = "C" -> "c"
      [] c = "D" -> "d"
      [] c = "E" -> "e"
      [] c = "F" -> "f"
      [] c = "G" -> "g"
      [] c = "H" -> "h"
      [] c = "I" -> "i"
      [] c = "J" -> "j"
      [] c = "K" -> "k"
      [] c = "L" -> "l"
      [] c = "M" -> "m"
      [] c = "N" -> "n"
      [] c = "O" -> "o"
      [] c = "P" -> "p"
      [] c = "Q" -> "q"
      [] c = "R" -> "r"
      [] c = "S" -> "s"
      [] c = "T" -> "t"
      [] c = "U" -> "u"
      [] c = "V" -> "v"
      [] c = "W" -> "w"
      [] c = "X" -> "x"
      [] c = "Y" -> "y"
      [] c = "Z" -> "z"
      [] OTHER -> c

\* unicode.IsSpace, as strings.Fields uses it
IsSpace(c) == c \in {" ", "\t", "\n", "\r"}

\* strings.ToLower
ToLower(s) == [i \in 1..Len(s) |-> Lower(s[i])]

\* strings.EqualFold: equal under simple case folding
EqualFold(s, t) ==
    /\ Len(s) = Len(t)
    /\ \A i \in 1..Len(s) : Lower(s[i]) = Lower(t[i])

\* strings.Fields: scan left to right, closing a field at each white space
RECURSIVE FieldsFrom(_, _, _, _)
FieldsFrom(s, i, cur, acc) ==
    IF i > Len(s)
    THEN IF cur = <<>> THEN acc ELSE Append(acc, cur)
    ELSE IF IsSpace(s[i])
         THEN FieldsFrom(s, i + 1, <<>>, IF cur = <<>> THEN acc ELSE Append(acc, cur))
         ELSE FieldsFrom(s, i + 1, Append(cur, s[i]), acc)

Fields(s) == FieldsFrom(s, 1, <<>>, <<>>)

----------------------------------------------------------------------------
(* package nlp *)

Tokenize(s) == Fields(ToLower(s))

\* The float64 0.0 that JaccardSimilarity returns for an empty union.
ZeroFloat == [num |-> 0, den |-> 1]

FloatEq(x, y) == x.num * y.den = y.num * x.den
FloatGT(x, y) == x.num * y.den > y.num * x.den
FloatGE(x, y) == x.num * y.den >= y.num * x.den

SeqToSet(q) == {q[i] : i \in DOMAIN q}

\* Mutant: the Tokenize call forgets strings.ToLower.
JaccardSimilarityCaseSensitive(a, b) ==
    LET setA == SeqToSet(Fields(a))
        setB == SeqToSet(Fields(b))
        intersectionCount == Cardinality({token \in setA : token \in setB})
        unionCount == Cardinality(setA \cup setB)
    IN  IF unionCount = 0 THEN ZeroFloat
        ELSE [num |-> intersectionCount, den |-> unionCount]

\* Mutant: the intersection is counted over the token list of a, not its set.
JaccardSimilarityCountsDuplicates(a, b) ==
    LET tokensA == Tokenize(a)
        setA == SeqToSet(tokensA)
        setB == SeqToSet(Tokenize(b))
        intersectionCount == Cardinality({i \in DOMAIN tokensA : tokensA[i] \in setB})
        unionCount == Cardinality(setA \cup setB)
    IN  IF unionCount = 0 THEN ZeroFloat
        ELSE [num |-> intersectionCount, den |-> unionCount]

\* Mutant: the second loop, which adds the tokens of b to the union, is missing.
JaccardSimilarityUnionOfAOnly(a, b) ==
    LET setA == SeqToSet(Tokenize(a))
        setB == SeqToSet(Tokenize(b))
        intersectionCount == Cardinality({token \in setA : token \in setB})
        unionCount == Cardinality(setA)
    IN  IF unionCount = 0 THEN ZeroFloat
        ELSE [num |-> intersectionCount, den |-> unionCount]

JaccardSimilarity(a, b) ==
    LET tokensA == Tokenize(a)
        tokensB == Tokenize(b)
        setA == SeqToSet(tokensA)
        setB == SeqToSet(tokensB)
        intersectionCount == Cardinality({token \in setA : token \in setB})
        unionSet == setA \cup setB
        unionCount == Cardinality(unionSet)
    IN  IF unionCount = 0 THEN ZeroFloat
        ELSE [num |-> intersectionCount, den |-> unionCount]

----------------------------------------------------------------------------
(* Inputs of the scorer: every string over SimAlphabet up to MaxLen        *)
(* characters, and the strings of the package's own test.                  *)

MaxLen == 3

SimAlphabet == {"a", "A", "b", " "}

RECURSIVE StringsUpTo(_)
StringsUpTo(n) ==
    IF n = 0 THEN {<<>>}
    ELSE LET shorter == StringsUpTo(n - 1)
         IN  shorter \cup {Append(s, c) : s \in {t \in shorter : Len(t) = n - 1}, c \in SimAlphabet}

StrChickenSaladLower ==
    <<"c", "h", "i", "c", "k", "e", "n", " ", "s", "a", "l", "a", "d">>

StrSaladWithChickenLower ==
    <<"s", "a", "l", "a", "d", " ", "w", "i", "t", "h", " ", "c", "h", "i", "c", "k", "e", "n">>

StrTabbed ==
    <<"\t", "A", " ", " ", "b", "\n">>

SimInputs == StringsUpTo(MaxLen) \cup {StrChickenSaladLower, StrSaladWithChickenLower, StrTabbed}

----------------------------------------------------------------------------
(* Text constants of main.go and of the requests driven through the model *)

TitleSpaghettiBolognese ==
    <<"S", "p", "a", "g", "h", "e", "t", "t", "i", " ", "B", "o", "l", "o", "g", "n", "e", "s", "e">>

TitleChickenSalad ==
    <<"C", "h", "i", "c", "k", "e", "n", " ", "S", "a", "l", "a", "d">>

TitleChickenSoup ==
    <<"C", "h", "i", "c", "k", "e", "n", " ", "S", "o", "u", "p">>

TitleChickenSaladLower ==
    <<"c", "h", "i", "c", "k", "e", "n", " ", "s", "a", "l", "a", "d">>

TitleABC ==
    <<"a", " ", "b", " ", "c">>

TitlePizza ==
    <<"P", "i", "z", "z", "a">>

TitleCalzone ==
    <<"C", "a", "l", "z", "o", "n", "e">>

CloseMatchMarker ==
    <<" ", "(", "C", "l", "o", "s", "e", " ", "M", "a", "t", "c", "h", ")">>

QuerySpaghettiBolognese ==
    <<"S", "p", "a", "g", "h", "e", "t", "t", "i", " ", "B", "o", "l", "o", "g", "n", "e", "s", "e">>

QuerySpaghettiMixedCase ==
    <<"s", "p", "a", "g", "h", "e", "t", "t", "i", " ", "B", "O", "L", "O", "G", "N", "E", "S", "E">>

QueryChickenSaladUpper ==
    <<"C", "H", "I", "C", "K", "E", "N", " ", "S", "A", "L", "A", "D">>

QuerySaladWithChicken ==
    <<"S", "a", "l", "a", "d", " ", "w", "i", "t", "h", " ", "c", "h", "i", "c", "k", "e", "n">>

QuerySaladChicken ==
    <<"s", "a", "l", "a", "d", " ", " ", "c", "h", "i", "c", "k", "e", "n">>

QueryChicken ==
    <<"c", "h", "i", "c", "k", "e", "n">>

QueryChickenNoodleSoup ==
    <<"c", "h", "i", "c", "k", "e", "n", " ", "n", "o", "o", "d", "l", "e", " ", "s", "o", "u", "p">>

QueryTenLetters ==
    <<"a", " ", "b", " ", "c", " ", "d", " ", "e", " ", "f", " ", "g", " ", "h", " ", "i", " ", "j">>

QueryTwoOfSeven ==
    <<"c", "h", "i", "c", "k", "e", "n", " ", "s", "a", "l", "a", "d", " ", "d", " ", "e", " ", "f", " ", "g", " ", "h">>

QueryPizza ==
    <<"p", "i", "z", "z", "a">>

----------------------------------------------------------------------------
(* Data model of main.go *)

\* time.Time values; ZeroTime is the zero value time.Time{}.
ZeroTime == [date |-> "0001-01-01", clock |-> "00:00:00"]

StartupTime == [date |-> "2025-02-01", clock |-> "10:00:00"]

RequestTime == [date |-> "2025-02-01", clock |-> "10:00:01"]

\* The zero value of main.Recipe (var best Recipe).
ZeroRecipe ==
    [ID |-> "", Title |-> <<>>, Ingredients |-> <<>>, Steps |-> <<>>,
     NutritionalInfo |-> "nil", AllergyDisclaimer |-> "", Appliances |-> <<>>,
     CreatedAt |-> ZeroTime, UpdatedAt |-> ZeroTime]

\* uuid.New().String() of the n-th call: distinct calls give distinct ids.
UUID(n) == "uuid-" \o ToString(n)

newRecipe(title, ingredients, steps, nutritionalInfo, allergyDisclaimer, appliances, id, now) ==
    [ID |-> id, Title |-> title, Ingredients |-> ingredients, Steps |-> steps,
     NutritionalInfo |-> nutritionalInfo, AllergyDisclaimer |-> allergyDisclaimer,
     Appliances |-> appliances, CreatedAt |-> now, UpdatedAt |-> now]

\* The corpus compiled into main.go.
SampleCorpus ==
    << newRecipe(TitleSpaghettiBolognese,
                 <<"spaghetti", "tomato sauce", "ground beef", "onion", "garlic">>,
                 <<"Boil pasta", "Cook sauce", "Mix and serve">>,
                 "calories:400", "Contains gluten", <<"stove">>, UUID(1), StartupTime),
       newRecipe(TitleChickenSalad,
                 <<"chicken", "lettuce", "tomatoes", "cucumber", "dressing">>,
                 <<"Grill chicken", "Mix vegetables", "Add dressing">>,
                 "calories:300", "None", <<"grill">>, UUID(2), StartupTime) >>

\* A corpus of the same shape whose titles tie: two titles equal up to case,
\* several titles at the same similarity from one query, and a three-word
\* title that a ten-word query meets at exactly 3/10.
TiedCorpus ==
    << newRecipe(TitleChickenSoup, <<"chicken", "water">>, <<"Simmer">>,
                 "calories:200", "None", <<"stove">>, UUID(1), StartupTime),
       newRecipe(TitleChickenSalad, <<"chicken", "lettuce">>, <<"Mix">>,
                 "calories:300", "None", <<"grill">>, UUID(2), StartupTime),
       newRecipe(TitleChickenSaladLower, <<"chicken", "mayonnaise">>, <<"Stir">>,
                 "calories:350", "Contains egg", <<>>, UUID(3), StartupTime),
       newRecipe(TitleABC, <<"a">>, <<"b">>,
                 "calories:1", "", <<>>, UUID(4), StartupTime) >>

Corpora == {SampleCorpus, TiedCorpus}

Queries ==
    {QuerySpaghettiBolognese, QuerySpaghettiMixedCase, QueryChickenSaladUpper,
     QuerySaladWithChicken, QuerySaladChicken, QueryChicken,
     QueryChickenNoodleSoup, QueryTenLetters, QueryTwoOfSeven, QueryPizza}

----------------------------------------------------------------------------
(* package generation: data *)

\* The zero value of generation.Recipe.
EmptyGenRecipe ==
    [ID |-> "", Title |-> <<>>, Ingredients |-> <<>>, Steps |-> <<>>,
     NutritionalInfo |-> "nil", AllergyDisclaimer |-> "", Appliances |-> <<>>,
     CreatedAt |-> "", UpdatedAt |-> ""]

GenPizza ==
    [ID |-> "gen-1", Title |-> TitlePizza, Ingredients |-> <<"dough", "tomato">>,
     Steps |-> <<"Knead", "Bake">>, NutritionalInfo |-> "calories:500",
     AllergyDisclaimer |-> "Contains gluten", Appliances |-> <<"oven">>,
     CreatedAt |-> "2024-01-02T03:04:05Z", UpdatedAt |-> "2024-01-02"]

GenCalzone ==
    [ID |-> "gen-2", Title |-> TitleCalzone, Ingredients |-> <<"dough">>,
     Steps |-> <<"Fold", "Bake">>, NutritionalInfo |-> "calories:600",
     AllergyDisclaimer |-> "", Appliances |-> <<"oven">>,
     CreatedAt |-> "yesterday", UpdatedAt |-> "2024-01-02T03:04:05Z"]

\* A JSON document as the decoders of generation.go see it: whether it decodes
\* at all, and the values of the keys the target structs name.  A key that is
\* absent decodes to the zero value; keys the target does not name are ignored.
DocUndecodable ==
    [valid |-> FALSE, choices |-> <<>>,
     primary_recipe |-> EmptyGenRecipe, alternative_recipes |-> <<>>]

DocEnvelope ==
    [valid |-> TRUE, choices |-> <<>>,
     primary_recipe |-> GenPizza, alternative_recipes |-> <<GenCalzone>>]

DocEmptyObject ==
    [valid |-> TRUE, choices |-> <<>>,
     primary_recipe |-> EmptyGenRecipe, alternative_recipes |-> <<>>]

\* An envelope whose alternative carries the identifier of the primary recipe.
DocDuplicateID ==
    [valid |-> TRUE, choices |-> <<>>,
     primary_recipe |-> GenPizza,
     alternative_recipes |-> <<[GenCalzone EXCEPT !.ID = GenPizza.ID]>>]

\* An envelope whose primary_recipe decodes and whose alternative_recipes has
\* the wrong JSON type: the decoder reports an error after it has filled
\* PrimaryRecipe of the target struct.
DocTypeMismatch ==
    [valid |-> FALSE, choices |-> <<>>,
     primary_recipe |-> GenPizza, alternative_recipes |-> <<>>]

DocChat(contents) ==
    [valid |-> TRUE, choices |-> contents,
     primary_recipe |-> EmptyGenRecipe, alternative_recipes |-> <<>>]

\* Message content is a sequence of tokens: white space, the fence marker, a
\* language tag, or a run of text standing for a JSON payload.
\* The token of three backquotes is written ''' here.
FenceMarker == "'''"

IsSpaceToken(tok) == tok \in {" ", "\n", "\t"}

\* What json.Unmarshal makes of a payload token.
PayloadDoc(tok) ==
    CASE tok = "{envelope}" -> DocEnvelope
      [] tok = "{}" -> DocEmptyObject
      [] tok = "{mismatch}" -> DocTypeMismatch
      [] OTHER -> DocUndecodable

ContentFenced == <<FenceMarker, "json", "\n", "{envelope}", "\n", FenceMarker>>

ContentBare == <<" ", "{envelope}", "\n">>

ContentProse == <<"Sorry,", " ", "no", " ", "recipe">>

ContentMismatch == <<"{mismatch}">>

ContentEmptyObject == <<FenceMarker, "json", "\n", "{}", "\n", FenceMarker>>

\* What HTTPClient.Do can come back with.
TransportFailure == [kind |-> "error", status |-> 0, body |-> DocUndecodable]

HTTPResponse(status, body) == [kind |-> "response", status |-> status, body |-> body]

StatusOK == 200

Responses ==
    {TransportFailure,
     HTTPResponse(500, DocEnvelope),
     HTTPResponse(201, DocEnvelope),
     HTTPResponse(StatusOK, DocTypeMismatch),
     HTTPResponse(StatusOK, DocEnvelope),
     HTTPResponse(StatusOK, DocDuplicateID),
     HTTPResponse(StatusOK, DocEmptyObject),
     HTTPResponse(StatusOK, DocChat(<<ContentFenced, ContentProse>>)),
     HTTPResponse(StatusOK, DocChat(<<ContentBare>>)),
     HTTPResponse(StatusOK, DocChat(<<ContentMismatch, ContentBare>>)),
     HTTPResponse(StatusOK, DocChat(<<ContentEmptyObject>>))}

\* The environment variables GenerateRecipe reads.
Environment(endpoint, key, model) ==
    [LLM_ENDPOINT |-> endpoint, DEEPSEEK_API_KEY |-> key, DEEPSEEK_MODEL |-> model]

Environments ==
    {Environment("", "", ""),
     Environment(":bad", "", ""),
     Environment("", "sk-key", ""),
     Environment("http://llm.example/v1", "", ""),
     Environment("http://llm.example/v1", "sk-key", ""),
     Environment("http://llm.example/v1", "sk-key", "deepseek-reasoner")}

----------------------------------------------------------------------------
(* package generation: GenerateRecipe *)

NoError == "nil"

ErrEndpointNotSet == "LLM_ENDPOINT environment variable not set"

ErrNewRequest == "parse url: missing protocol scheme"

ErrTransport == "HTTPClient.Do: transport error or timeout"

ErrNon200 == "LLM endpoint returned non-200 status"

ErrNoChoices == "no choices in DeepSeek response"

ErrDecode == "json: cannot decode"

GenFailure(err) == [recipe |-> EmptyGenRecipe, alternatives |-> <<>>, err |-> err]

GenSuccess(recipe, alternatives) ==
    [recipe |-> recipe, alternatives |-> alternatives, err |-> NoError]

\* The triple before GenerateRecipe has returned.
NoGen == GenFailure("not returned")

\* The instruction text, with the query embedded verbatim.
Prompt(q) ==
    << "Generate a recipe based on the following query: \"", q,
       "\". Return a JSON object with two keys: 'primary_recipe' and 'alternative_recipes'. ..." >>

PlainRequest(endpoint, q) ==
    [method |-> "POST", url |-> endpoint,
     header |-> [ContentType |-> "application/json", Authorization |-> ""],
     body |-> [prompt |-> Prompt(q)]]

DeepSeekRequest(endpoint, key, modelOverride, q) ==
    [method |-> "POST", url |-> endpoint,
     header |-> [ContentType |-> "application/json", Authorization |-> "Bearer " \o key],
     body |-> [model |-> IF modelOverride = "" THEN "deepseek-chat" ELSE modelOverride,
               messages |-> << [role |-> "system", content |-> <<"You are a helpful assistant.">>],
                               [role |-> "user", content |-> Prompt(q)] >>,
               stream |-> FALSE]]

\* url.Parse inside http.NewRequest accepts the endpoint.
ValidURL(endpoint) == endpoint # ":bad"

\* Mutant: the check of LLM_ENDPOINT is missing; the request is built regardless.
GenerateRecipeRequestUnchecked(e, q) ==
    [err |-> NoError,
     requests |-> << IF e.DEEPSEEK_API_KEY # ""
                     THEN DeepSeekRequest(e.LLM_ENDPOINT, e.DEEPSEEK_API_KEY, e.DEEPSEEK_MODEL, q)
                     ELSE PlainRequest(e.LLM_ENDPOINT, q) >>]

\* GenerateRecipe handing its request to the client a second time.
GenerateRecipeRequestSentTwice(e, q) ==
    LET llmEndpoint == e.LLM_ENDPOINT
        key == e.DEEPSEEK_API_KEY
        req == IF key # ""
               THEN DeepSeekRequest(llmEndpoint, key, e.DEEPSEEK_MODEL, q)
               ELSE PlainRequest(llmEndpoint, q)
    IN  IF llmEndpoint = ""
        THEN [err |-> ErrEndpointNotSet, requests |-> <<>>]
        ELSE IF ~ValidURL(llmEndpoint)
        THEN [err |-> ErrNewRequest, requests |-> <<>>]
        ELSE [err |-> NoError, requests |-> <<req, req>>]

\* GenerateRecipe up to the call of HTTPClient.Do: the error it returns early
\* with, or the request it hands to the client.
GenerateRecipeRequest(e, q) ==
    LET llmEndpoint == e.LLM_ENDPOINT
        key == e.DEEPSEEK_API_KEY
    IN  IF llmEndpoint = ""
        THEN [err |-> ErrEndpointNotSet, requests |-> <<>>]
        ELSE IF ~ValidURL(llmEndpoint)
        THEN [err |-> ErrNewRequest, requests |-> <<>>]
        ELSE [err |-> NoError,
              requests |-> << IF key # ""
                              THEN DeepSeekRequest(llmEndpoint, key, e.DEEPSEEK_MODEL, q)
                              ELSE PlainRequest(llmEndpoint, q) >>]

\* strings.TrimSpace on message content
RECURSIVE TrimLeft(_)
TrimLeft(s) ==
    IF s # <<>> /\ IsSpaceToken(Head(s)) THEN TrimLeft(Tail(s)) ELSE s

RECURSIVE TrimRight(_)
TrimRight(s) ==
    IF s # <<>> /\ IsSpaceToken(s[Len(s)]) THEN TrimRight(SubSeq(s, 1, Len(s) - 1)) ELSE s

TrimSpace(s) == TrimRight(TrimLeft(s))

\* strings.Index and strings.LastIndex, 1-based; 0 when absent
Index(s, tok) ==
    IF \E i \in DOMAIN s : s[i] = tok
    THEN CHOOSE i \in DOMAIN s : s[i] = tok /\ \A j \in 1..(i - 1) : s[j] # tok
    ELSE 0

LastIndex(s, tok) ==
    IF \E i \in DOMAIN s : s[i] = tok
    THEN CHOOSE i \in DOMAIN s : s[i] = tok /\ \A j \in (i + 1)..Len(s) : s[j] # tok
    ELSE 0

\* stripCodeFences cutting at the first fence marker left after the opening
\* line instead of the last.
stripCodeFencesFirstFence(content) ==
    LET s0 == TrimSpace(content)
    IN  IF s0 # <<>> /\ Head(s0) = FenceMarker
        THEN LET i == Index(s0, "\n")
                 s1 == IF i # 0 THEN SubSeq(s0, i + 1, Len(s0)) ELSE s0
                 j == Index(s1, FenceMarker)
                 s2 == IF j # 0 THEN SubSeq(s1, 1, j - 1) ELSE s1
             IN  TrimSpace(s2)
        ELSE TrimSpace(s0)

stripCodeFences(content) ==
    LET s0 == TrimSpace(content)
    IN  IF s0 # <<>> /\ Head(s0) = FenceMarker
        THEN LET i == Index(s0, "\n")
                 s1 == IF i # 0 THEN SubSeq(s0, i + 1, Len(s0)) ELSE s0
                 j == LastIndex(s1, FenceMarker)
                 s2 == IF j # 0 THEN SubSeq(s1, 1, j - 1) ELSE s1
             IN  TrimSpace(s2)
        ELSE TrimSpace(s0)

\* json.Unmarshal of the cleaned content into LLMResponse: one JSON value,
\* nothing but white space around it.
UnmarshalContent(s) ==
    IF Len(s) = 1 THEN PayloadDoc(s[1]) ELSE DocUndecodable

\* GenerateRecipe without the status check of lines 165-167.
GenerateRecipeResultStatusUnchecked(key, r) ==
    IF r.kind = "error" THEN GenFailure(ErrTransport)
    ELSE IF key # ""
    THEN LET dsResp == r.body
         IN  IF ~dsResp.valid THEN GenFailure(ErrDecode)
             ELSE IF Len(dsResp.choices) = 0 THEN GenFailure(ErrNoChoices)
             ELSE LET cleanContent == stripCodeFences(dsResp.choices[1])
                      llmResp == UnmarshalContent(cleanContent)
                  IN  IF ~llmResp.valid THEN GenFailure(ErrDecode)
                      ELSE GenSuccess(llmResp.primary_recipe, llmResp.alternative_recipes)
    ELSE LET llmResp == r.body
         IN  IF ~llmResp.valid THEN GenFailure(ErrDecode)
             ELSE GenSuccess(llmResp.primary_recipe, llmResp.alternative_recipes)

\* GenerateRecipe parsing every 200 answer as a bare envelope, whatever the
\* credential.
GenerateRecipeResultAlwaysPlain(key, r) ==
    IF r.kind = "error" THEN GenFailure(ErrTransport)
    ELSE IF r.status # StatusOK THEN GenFailure(ErrNon200)
    ELSE LET llmResp == r.body
         IN  IF ~llmResp.valid THEN GenFailure(ErrDecode)
             ELSE GenSuccess(llmResp.primary_recipe, llmResp.alternative_recipes)

\* GenerateRecipe taking the content of the last choice instead of the first.
GenerateRecipeResultLastChoice(key, r) ==
    IF r.kind = "error" THEN GenFailure(ErrTransport)
    ELSE IF r.status # StatusOK THEN GenFailure(ErrNon200)
    ELSE IF key # ""
    THEN LET dsResp == r.body
         IN  IF ~dsResp.valid THEN GenFailure(ErrDecode)
             ELSE IF Len(dsResp.choices) = 0 THEN GenFailure(ErrNoChoices)
             ELSE LET cleanContent == stripCodeFences(dsResp.choices[Len(dsResp.choices)])
                      llmResp == UnmarshalContent(cleanContent)
                  IN  IF ~llmResp.valid THEN GenFailure(ErrDecode)
                      ELSE GenSuccess(llmResp.primary_recipe, llmResp.alternative_recipes)
    ELSE LET llmResp == r.body
         IN  IF ~llmResp.valid THEN GenFailure(ErrDecode)
             ELSE GenSuccess(llmResp.primary_recipe, llmResp.alternative_recipes)

\* GenerateRecipe passing on what the decoder had filled in when it failed,
\* with no error.
GenerateRecipeResultSwallowingDecodeError(key, r) ==
    IF r.kind = "error" THEN GenFailure(ErrTransport)
    ELSE IF r.status # StatusOK THEN GenFailure(ErrNon200)
    ELSE IF key # ""
    THEN LET dsResp == r.body
         IN  IF ~dsResp.valid THEN GenFailure(ErrDecode)
             ELSE IF Len(dsResp.choices) = 0 THEN GenFailure(ErrNoChoices)
             ELSE LET cleanContent == stripCodeFences(dsResp.choices[1])
                      llmResp == UnmarshalContent(cleanContent)
                  IN  GenSuccess(llmResp.primary_recipe, llmResp.alternative_recipes)
    ELSE LET llmResp == r.body
         IN  GenSuccess(llmResp.primary_recipe, llmResp.alternative_recipes)

\* GenerateRecipe from the return of HTTPClient.Do on.
GenerateRecipeResult(key, r) ==
    IF r.kind = "error" THEN GenFailure(ErrTransport)
    ELSE IF r.status # StatusOK THEN GenFailure(ErrNon200)
    ELSE IF key # ""
    THEN LET dsResp == r.body
         IN  IF ~dsResp.valid THEN GenFailure(ErrDecode)
             ELSE IF Len(dsResp.choices) = 0 THEN GenFailure(ErrNoChoices)
             ELSE LET cleanContent == stripCodeFences(dsResp.choices[1])
                      llmResp == UnmarshalContent(cleanContent)
                  IN  IF ~llmResp.valid THEN GenFailure(ErrDecode)
                      ELSE GenSuccess(llmResp.primary_recipe, llmResp.alternative_recipes)
    ELSE LET llmResp == r.body
         IN  IF ~llmResp.valid THEN GenFailure(ErrDecode)
             ELSE GenSuccess(llmResp.primary_recipe, llmResp.alternative_recipes)

----------------------------------------------------------------------------
(* main.go: conversion of generated recipes *)

\* time.Parse(time.RFC3339, s) and time.Parse("2006-01-02", s) on the
\* timestamp texts that occur: [ok, t].
ParseRFC3339(s) ==
    IF s = "2024-01-02T03:04:05Z"
    THEN [ok |-> TRUE, t |-> [date |-> "2024-01-02", clock |-> "03:04:05"]]
    ELSE [ok |-> FALSE, t |-> ZeroTime]

ParseDate(s) ==
    IF s = "2024-01-02"
    THEN [ok |-> TRUE, t |-> [date |-> "2024-01-02", clock |-> "00:00:00"]]
    ELSE [ok |-> FALSE, t |-> ZeroTime]

ParseTimestamp(s) ==
    IF ParseRFC3339(s).ok THEN ParseRFC3339(s).t ELSE ParseDate(s).t

\* convertGenRecipe without the second parse: a bare date is not read.
convertGenRecipeFullTimestampOnly(r) ==
    [ID |-> r.ID, Title |-> r.Title, Ingredients |-> r.Ingredients, Steps |-> r.Steps,
     NutritionalInfo |-> r.NutritionalInfo, AllergyDisclaimer |-> r.AllergyDisclaimer,
     Appliances |-> r.Appliances,
     CreatedAt |-> ParseRFC3339(r.CreatedAt).t, UpdatedAt |-> ParseRFC3339(r.UpdatedAt).t]

convertGenRecipe(r) ==
    [ID |-> r.ID, Title |-> r.Title, Ingredients |-> r.Ingredients, Steps |-> r.Steps,
     NutritionalInfo |-> r.NutritionalInfo, AllergyDisclaimer |-> r.AllergyDisclaimer,
     Appliances |-> r.Appliances,
     CreatedAt |-> ParseTimestamp(r.CreatedAt), UpdatedAt |-> ParseTimestamp(r.UpdatedAt)]

convertGenRecipes(rs) == [i \in 1..Len(rs) |-> convertGenRecipe(rs[i])]

----------------------------------------------------------------------------
(* main.go: resolveRecipe *)

\* Mutant: titles are compared with ==, not strings.EqualFold.
TitleMatchesCaseSensitive(title, q) == title = q

\* Titles compared by their words: any query with the words of the title
\* counts as an exact match.
TitleMatchesSameWords(title, q) == SeqToSet(Tokenize(title)) = SeqToSet(Tokenize(q))

\* The test of the exact-match loop.
TitleMatches(title, q) == EqualFold(title, q)

\* The exact-match loop: index of the first entry whose title matches, 0 if none.
RECURSIVE ExactMatchFrom(_, _, _)
ExactMatchFrom(db, q, i) ==
    IF i > Len(db) THEN 0
    ELSE IF TitleMatches(db[i].Title, q) THEN i
    ELSE ExactMatchFrom(db, q, i + 1)

ExactMatch(db, q) == ExactMatchFrom(db, q, 1)

CorpusTitles == UNION {{db[i].Title : i \in DOMAIN db} : db \in Corpora}

\* nlp.JaccardSimilarity(query, r.Title) as the similarity loop calls it.  The
\* scores of the queries against the corpus titles are computed once and
\* looked up; any other pair is computed on the spot.
SimilarityMemo ==
    {[q |-> q, title |-> title, sim |-> JaccardSimilarity(q, title)] :
        q \in Queries, title \in CorpusTitles}

Similarity(q, title) ==
    IF \E e \in SimilarityMemo : e.q = q /\ e.title = title
    THEN (CHOOSE e \in SimilarityMemo : e.q = q /\ e.title = title).sim
    ELSE JaccardSimilarity(q, title)

\* The similarity loop: bestSim and best after the entries from i on.
RECURSIVE BestMatchFrom(_, _, _, _, _)
BestMatchFrom(db, q, i, bSim, b) ==
    IF i > Len(db) THEN [bestSim |-> bSim, best |-> b]
    ELSE LET sim == Similarity(q, db[i].Title)
         IN  IF FloatGT(sim, bSim)
             THEN BestMatchFrom(db, q, i + 1, sim, db[i])
             ELSE BestMatchFrom(db, q, i + 1, bSim, b)

\* The similarity loop comparing with >=: the last entry of a tie wins.
BestMatchLastOfTies(db, q) ==
    LET top == {i \in DOMAIN db :
                   \A j \in DOMAIN db :
                       FloatGE(Similarity(q, db[i].Title), Similarity(q, db[j].Title))}
        last == CHOOSE i \in top : \A j \in top : j <= i
    IN  IF db = <<>> \/ FloatEq(Similarity(q, db[last].Title), ZeroFloat)
        THEN [bestSim |-> ZeroFloat, best |-> ZeroRecipe]
        ELSE [bestSim |-> Similarity(q, db[last].Title), best |-> db[last]]

BestMatch(db, q) == BestMatchFrom(db, q, 1, ZeroFloat, ZeroRecipe)

similarityThreshold == [num |-> 3, den |-> 10]

\* Mutant: the threshold is exclusive.
MeetsThresholdStrictly(sim) == FloatGT(sim, similarityThreshold)

MeetsThreshold(sim) == FloatGE(sim, similarityThreshold)

\* Mutant: the marker is never appended.
CloseMatchTitleUnmarked(title) == title

CloseMatchTitle(title) == title \o CloseMatchMarker

\* Mutant: best aliases the corpus entry, so annotating it writes the corpus.
CorpusAnnotatedInPlace(db, b) ==
    [i \in 1..Len(db) |->
        IF db[i].ID = b.ID THEN [db[i] EXCEPT !.Title = CloseMatchTitle(@)] ELSE db[i]]

\* recipesDB after the close tier has annotated best: best is a copy of the
\* entry (best = r copies the struct), so the corpus is what it was.
CorpusAfterCloseMatch(db, b) == db

\* Mutant: the error of GenerateRecipe is ignored.
ResolveGeneratedIgnoringError(g, q, id, now) ==
    [primary |-> convertGenRecipe(g.recipe),
     alternatives |-> convertGenRecipes(g.alternatives),
     tier |-> "Generated"]

\* Mutant: the error of GenerateRecipe is passed on to the caller.
ResolveGeneratedPropagatingError(g, q, id, now) ==
    IF g.err # NoError
    THEN [primary |-> ZeroRecipe, alternatives |-> <<>>, tier |-> "Error"]
    ELSE [primary |-> convertGenRecipe(g.recipe),
          alternatives |-> convertGenRecipes(g.alternatives),
          tier |-> "Generated"]

\* resolveRecipe taking a generated recipe without a title for a failure.
ResolveGeneratedEmptyAsFailure(g, q, id, now) ==
    IF g.err # NoError \/ g.recipe.Title = <<>>
    THEN [primary |-> newRecipe(q, <<>>, <<>>, "map[]", "", <<>>, id, now),
          alternatives |-> <<>>,
          tier |-> "Generated"]
    ELSE [primary |-> convertGenRecipe(g.recipe),
          alternatives |-> convertGenRecipes(g.alternatives),
          tier |-> "Generated"]

\* What resolveRecipe returns once GenerateRecipe has returned g.
ResolveGenerated(g, q, id, now) ==
    IF g.err # NoError
    THEN [primary |-> newRecipe(q, <<>>, <<>>, "map[]", "", <<>>, id, now),
          alternatives |-> <<>>,
          tier |-> "Generated"]
    ELSE [primary |-> convertGenRecipe(g.recipe),
          alternatives |-> convertGenRecipes(g.alternatives),
          tier |-> "Generated"]

----------------------------------------------------------------------------
(* The service: requests resolved concurrently, one goroutine each *)

Requests == {"r1", "r2"}

MaxCalls == 2

NoResponse == [kind |-> "none", status |-> 0, body |-> DocUndecodable]

NoResult == [primary |-> ZeroRecipe, alternatives |-> <<>>]

Init ==
    /\ recipesDB \in Corpora
    /\ env \in Environments
    /\ uuidCount = Len(recipesDB)
    /\ calls = 0
    /\ pc = [p \in Requests |-> "idle"]
    /\ query = [p \in Requests |-> <<>>]
    /\ tried = [p \in Requests |-> <<>>]
    /\ bestSim = [p \in Requests |-> ZeroFloat]
    /\ best = [p \in Requests |-> ZeroRecipe]
    /\ deepseekKey = [p \in Requests |-> ""]
    /\ sent = [p \in Requests |-> <<>>]
    /\ resp = [p \in Requests |-> NoResponse]
    /\ gen = [p \in Requests |-> NoGen]
    /\ tier = [p \in Requests |-> "none"]
    /\ result = [p \in Requests |-> NoResult]
    /\ simA = <<>>
    /\ simB = <<>>
    /\ simPc = "off"
    /\ simAB = ZeroFloat
    /\ simBA = ZeroFloat
    /\ fenceIn = <<>>
    /\ fencePc = "off"
    /\ fenceOut = <<>>

\* resolveHandler calls resolveRecipe(q); the locals are fresh.
Resolve(p, q) ==
    /\ pc[p] = "idle"
    /\ calls < MaxCalls
    /\ calls' = calls + 1
    /\ pc' = [pc EXCEPT ![p] = "exact"]
    /\ query' = [query EXCEPT ![p] = q]
    /\ UNCHANGED <<recipesDB, env, uuidCount, tried, bestSim, best, deepseekKey,
                   sent, resp, gen, tier, result, simVars, fenceVars>>

\* The exact-match loop of resolveRecipe.
ExactTier(p) ==
    /\ pc[p] = "exact"
    /\ tried' = [tried EXCEPT ![p] = Append(@, "exact")]
    /\ LET i == ExactMatch(recipesDB, query[p])
       IN  IF i # 0
           THEN /\ result' = [result EXCEPT ![p] =
                                 [primary |-> recipesDB[i], alternatives |-> <<>>]]
                /\ tier' = [tier EXCEPT ![p] = "Exact"]
                /\ pc' = [pc EXCEPT ![p] = "done"]
           ELSE /\ pc' = [pc EXCEPT ![p] = "close"]
                /\ UNCHANGED <<result, tier>>
    /\ UNCHANGED <<recipesDB, env, uuidCount, calls, query, bestSim, best,
                   deepseekKey, sent, resp, gen, simVars, fenceVars>>

\* The similarity loop and the threshold test of resolveRecipe.
CloseTier(p) ==
    /\ pc[p] = "close"
    /\ tried' = [tried EXCEPT ![p] = Append(@, "close")]
    /\ LET m == BestMatch(recipesDB, query[p])
       IN  /\ bestSim' = [bestSim EXCEPT ![p] = m.bestSim]
           /\ IF MeetsThreshold(m.bestSim)
              THEN /\ best' = [best EXCEPT ![p] =
                                  [m.best EXCEPT !.Title = CloseMatchTitle(@)]]
                   /\ recipesDB' = CorpusAfterCloseMatch(recipesDB, m.best)
                   /\ result' = [result EXCEPT ![p] =
                                    [primary |-> best'[p], alternatives |-> <<>>]]
                   /\ tier' = [tier EXCEPT ![p] = "Close"]
                   /\ pc' = [pc EXCEPT ![p] = "done"]
              ELSE /\ best' = [best EXCEPT ![p] = m.best]
                   /\ pc' = [pc EXCEPT ![p] = "generate"]
                   /\ UNCHANGED <<recipesDB, result, tier>>
    /\ UNCHANGED <<env, uuidCount, calls, query, deepseekKey, sent, resp, gen, simVars, fenceVars>>

\* resolveRecipe calls GenerateRecipe, which returns early or hands its
\* request to HTTPClient.Do.
InvokeGenerateRecipe(p) ==
    /\ pc[p] = "generate"
    /\ tried' = [tried EXCEPT ![p] = Append(@, "generate")]
    /\ LET r == GenerateRecipeRequest(env, query[p])
       IN  IF r.err # NoError
           THEN /\ gen' = [gen EXCEPT ![p] = GenFailure(r.err)]
                /\ pc' = [pc EXCEPT ![p] = "returned"]
                /\ UNCHANGED <<sent, deepseekKey>>
           ELSE /\ sent' = [sent EXCEPT ![p] = @ \o r.requests]
                /\ deepseekKey' = [deepseekKey EXCEPT ![p] = env.DEEPSEEK_API_KEY]
                /\ pc' = [pc EXCEPT ![p] = "awaiting"]
                /\ UNCHANGED gen
    /\ UNCHANGED <<recipesDB, env, uuidCount, calls, query, bestSim, best,
                   resp, tier, result, simVars, fenceVars>>

\* HTTPClient.Do returns r (or fails, or times out) and GenerateRecipe runs
\* to its return.
HTTPClientDo(p, r) ==
    /\ pc[p] = "awaiting"
    /\ resp' = [resp EXCEPT ![p] = r]
    /\ gen' = [gen EXCEPT ![p] = GenerateRecipeResult(deepseekKey[p], r)]
    /\ pc' = [pc EXCEPT ![p] = "returned"]
    /\ UNCHANGED <<recipesDB, env, uuidCount, calls, query, tried, bestSim, best,
                   deepseekKey, sent, tier, result, simVars, fenceVars>>

\* resolveRecipe after GenerateRecipe has returned: fallback or conversion.
ReturnGenerated(p) ==
    /\ pc[p] = "returned"
    /\ LET out == ResolveGenerated(gen[p], query[p], UUID(uuidCount + 1), RequestTime)
       IN  /\ result' = [result EXCEPT ![p] =
                            [primary |-> out.primary, alternatives |-> out.alternatives]]
           /\ tier' = [tier EXCEPT ![p] = out.tier]
    /\ uuidCount' = IF gen[p].err # NoError THEN uuidCount + 1 ELSE uuidCount
    /\ pc' = [pc EXCEPT ![p] = "done"]
    /\ UNCHANGED <<recipesDB, env, calls, query, tried, bestSim, best,
                   deepseekKey, sent, resp, gen, simVars, fenceVars>>

\* resolveHandler writes the response and returns: the call's locals are gone.
HandlerReturn(p) ==
    /\ pc[p] = "done"
    /\ pc' = [pc EXCEPT ![p] = "idle"]
    /\ query' = [query EXCEPT ![p] = <<>>]
    /\ tried' = [tried EXCEPT ![p] = <<>>]
    /\ bestSim' = [bestSim EXCEPT ![p] = ZeroFloat]
    /\ best' = [best EXCEPT ![p] = ZeroRecipe]
    /\ deepseekKey' = [deepseekKey EXCEPT ![p] = ""]
    /\ sent' = [sent EXCEPT ![p] = <<>>]
    /\ resp' = [resp EXCEPT ![p] = NoResponse]
    /\ gen' = [gen EXCEPT ![p] = NoGen]
    /\ tier' = [tier EXCEPT ![p] = "none"]
    /\ result' = [result EXCEPT ![p] = NoResult]
    /\ UNCHANGED <<recipesDB, env, uuidCount, calls, simVars, fenceVars>>

Step(p) ==
    \/ ExactTier(p)
    \/ CloseTier(p)
    \/ InvokeGenerateRecipe(p)
    \/ \E r \in Responses : HTTPClientDo(p, r)
    \/ ReturnGenerated(p)

Next ==
    \/ \E p \in Requests, q \in Queries : Resolve(p, q)
    \/ \E p \in Requests : ExactTier(p)
    \/ \E p \in Requests : CloseTier(p)
    \/ \E p \in Requests : InvokeGenerateRecipe(p)
    \/ \E p \in Requests, r \in Responses : HTTPClientDo(p, r)
    \/ \E p \in Requests : ReturnGenerated(p)
    \/ \E p \in Requests : HandlerReturn(p)

vars == <<resolverVars, simVars, fenceVars>>

Spec == Init /\ [][Next]_vars

\* One request at a time, served to its end: the goroutine of a request is
\* scheduled until resolveRecipe returns, and HTTPClient's Timeout makes Do
\* return.
FirstRequest == "r1"

NextOneRequest ==
    \/ \E q \in Queries : Resolve(FirstRequest, q)
    \/ ExactTier(FirstRequest)
    \/ CloseTier(FirstRequest)
    \/ InvokeGenerateRecipe(FirstRequest)
    \/ \E r \in Responses : HTTPClientDo(FirstRequest, r)
    \/ ReturnGenerated(FirstRequest)
    \/ HandlerReturn(FirstRequest)

FairSpec == Init /\ [][NextOneRequest]_vars /\ WF_vars(Step(FirstRequest))

----------------------------------------------------------------------------
(* The scorer on its own: JaccardSimilarity applied to every pair of inputs *)

InitSim ==
    /\ simA \in SimInputs
    /\ simB \in SimInputs
    /\ simPc = "call"
    /\ simAB = ZeroFloat
    /\ simBA = ZeroFloat
    /\ fenceIn = <<>>
    /\ fencePc = "off"
    /\ fenceOut = <<>>
    /\ recipesDB = SampleCorpus
    /\ env = Environment("", "", "")
    /\ uuidCount = Len(recipesDB)
    /\ calls = 0
    /\ pc = [p \in Requests |-> "idle"]
    /\ query = [p \in Requests |-> <<>>]
    /\ tried = [p \in Requests |-> <<>>]
    /\ bestSim = [p \in Requests |-> ZeroFloat]
    /\ best = [p \in Requests |-> ZeroRecipe]
    /\ deepseekKey = [p \in Requests |-> ""]
    /\ sent = [p \in Requests |-> <<>>]
    /\ resp = [p \in Requests |-> NoResponse]
    /\ gen = [p \in Requests |-> NoGen]
    /\ tier = [p \in Requests |-> "none"]
    /\ result = [p \in Requests |-> NoResult]

CallJaccardSimilarity ==
    /\ simPc = "call"
    /\ simAB' = JaccardSimilarity(simA, simB)
    /\ simBA' = JaccardSimilarity(simB, simA)
    /\ simPc' = "done"
    /\ UNCHANGED <<simA, simB, resolverVars, fenceVars>>

NextSim == CallJaccardSimilarity

SpecSim == InitSim /\ [][NextSim]_vars

----------------------------------------------------------------------------
(* The fence stripper on its own: stripCodeFences applied to every content *)

\* Longest content enumerated, in tokens.
MaxTokens == 5

FenceAlphabet == {FenceMarker, "\n", " ", "json", "{envelope}"}

TokensUpTo(n) == UNION { [1..k -> FenceAlphabet] : k \in 0..n }

FenceInputs ==
    TokensUpTo(MaxTokens)
        \cup {ContentFenced, ContentBare, ContentProse, ContentMismatch, ContentEmptyObject}

InitFence ==
    /\ fenceIn \in FenceInputs
    /\ fencePc = "call"
    /\ fenceOut = <<>>
    /\ simA = <<>>
    /\ simB = <<>>
    /\ simPc = "off"
    /\ simAB = ZeroFloat
    /\ simBA = ZeroFloat
    /\ recipesDB = SampleCorpus
    /\ env = Environment("", "", "")
    /\ uuidCount = Len(recipesDB)
    /\ calls = 0
    /\ pc = [p \in Requests |-> "idle"]
    /\ query = [p \in Requests |-> <<>>]
    /\ tried = [p \in Requests |-> <<>>]
    /\ bestSim = [p \in Requests |-> ZeroFloat]
    /\ best = [p \in Requests |-> ZeroRecipe]
    /\ deepseekKey = [p \in Requests |-> ""]
    /\ sent = [p \in Requests |-> <<>>]
    /\ resp = [p \in Requests |-> NoResponse]
    /\ gen = [p \in Requests |-> NoGen]
    /\ tier = [p \in Requests |-> "none"]
    /\ result = [p \in Requests |-> NoResult]

CallStripCodeFences ==
    /\ fencePc = "call"
    /\ fenceOut' = stripCodeFences(fenceIn)
    /\ fencePc' = "done"
    /\ UNCHANGED <<fenceIn, resolverVars, simVars>>

NextFence == CallStripCodeFences

SpecFence == InitFence /\ [][NextFence]_vars

----------------------------------------------------------------------------
(* Vocabulary of the properties *)

\* The words of s: the maximal runs of characters that are not white space,
\* lowercased, as a set.
WordSet(s) ==
    { ToLower(SubSeq(s, i, j)) :
        <<i, j>> \in { w \in (1..Len(s)) \X (1..Len(s)) :
                         /\ w[1] <= w[2]
                         /\ \A k \in w[1]..w[2] : ~IsSpace(s[k])
                         /\ (w[1] = 1 \/ IsSpace(s[w[1] - 1]))
                         /\ (w[2] = Len(s) \/ IsSpace(s[w[2] + 1])) } }

OneFloat == [num |-> 1, den |-> 1]

\* C1: JaccardSimilarity(a, b) is |A n B| / |A u B| for the word sets A, B of
\* a and b; it lies in [0, 1]; it is 0.0 when both word sets are empty; and
\* "chicken salad" against "salad with chicken" scores 2/3.
SimilarityIsJaccardRatio ==
    simPc = "done" =>
        LET A == WordSet(simA)
            B == WordSet(simB)
        IN  /\ simAB.den > 0
            /\ 0 <= simAB.num
            /\ simAB.num <= simAB.den
            /\ (A \cup B = {} => simAB.num = 0)
            /\ simAB.num * Cardinality(A \cup B) = Cardinality(A \cap B) * simAB.den
            /\ (simA = StrChickenSaladLower /\ simB = StrSaladWithChickenLower
                    => simAB.num * 3 = 2 * simAB.den)

SimilarityIsJaccardRatioWitness ==
    /\ simPc = "done"
    /\ simA = StrChickenSaladLower
    /\ simB = StrSaladWithChickenLower
    /\ simAB = [num |-> 2, den |-> 3]

\* C2: similarity is symmetric: JaccardSimilarity(a, b) = JaccardSimilarity(b, a).
SimilarityIsSymmetric ==
    simPc = "done" => FloatEq(simAB, simBA)

SimilarityIsSymmetricWitness ==
    /\ simPc = "done"
    /\ simA = <<"a", " ", "a">>
    /\ simB = <<"A", " ", "b">>
    /\ simAB = [num |-> 1, den |-> 2]
    /\ simBA = [num |-> 1, den |-> 2]

\* C3: JaccardSimilarity(a, b) is 1.0 exactly when a and b have the same,
\* non-empty, word set.
SimilarityOneIffSameWords ==
    simPc = "done" =>
        (FloatEq(simAB, OneFloat)
            <=> (WordSet(simA) = WordSet(simB) /\ WordSet(simA) # {}))

SimilarityOneIffSameWordsWitness ==
    /\ simPc = "done"
    /\ simA = <<"A", " ", "b">>
    /\ simB = <<"b", " ", "a">>
    /\ FloatEq(simAB, OneFloat)

\* Case-insensitive equality of whole strings.
SameIgnoringCase(s, t) == ToLower(s) = ToLower(t)

ExactEntriesOf(db, q) == {i \in DOMAIN db : SameIgnoringCase(db[i].Title, q)}

\* The entries of db whose similarity to q no other entry exceeds.
MaxSimEntriesOf(db, q) ==
    {i \in DOMAIN db :
        \A j \in DOMAIN db :
            FloatGE(Similarity(q, db[i].Title), Similarity(q, db[j].Title))}

\* The maximum similarity between q and a title of db is at least 0.3.
MaxSimAtLeastThresholdOf(db, q) ==
    \E i \in DOMAIN db :
        LET sim == Similarity(q, db[i].Title) IN 10 * sim.num >= 3 * sim.den

\* The three, worked out once for the corpora and queries that occur and
\* looked up; for any other corpus or query they are worked out on the spot.
MatcherMemo ==
    {[db |-> db, q |-> q,
      exact |-> ExactEntriesOf(db, q),
      top |-> MaxSimEntriesOf(db, q),
      atLeast |-> MaxSimAtLeastThresholdOf(db, q)] : db \in Corpora, q \in Queries}

InMatcherMemo(db, q) == \E e \in MatcherMemo : e.q = q /\ e.db = db

MatcherMemoOf(db, q) == CHOOSE e \in MatcherMemo : e.q = q /\ e.db = db

ExactEntries(db, q) ==
    IF InMatcherMemo(db, q) THEN MatcherMemoOf(db, q).exact ELSE ExactEntriesOf(db, q)

MaxSimEntries(db, q) ==
    IF InMatcherMemo(db, q) THEN MatcherMemoOf(db, q).top ELSE MaxSimEntriesOf(db, q)

MaxSimAtLeastThreshold(db, q) ==
    IF InMatcherMemo(db, q) THEN MatcherMemoOf(db, q).atLeast
    ELSE MaxSimAtLeastThresholdOf(db, q)

\* The matcher outcomes of section 4.2.
OutcomeExact(db, q) == ExactEntries(db, q) # {}

OutcomeClose(db, q) == ExactEntries(db, q) = {} /\ MaxSimAtLeastThreshold(db, q)

OutcomeNone(db, q) == ExactEntries(db, q) = {} /\ ~MaxSimAtLeastThreshold(db, q)

Min(S) == CHOOSE x \in S : \A y \in S : x <= y

IsPrefix(s, t) == Len(s) <= Len(t) /\ s = SubSeq(t, 1, Len(s))

GenerationInvoked(p) == \E i \in DOMAIN tried[p] : tried[p][i] = "generate"

\* C6: GenerateRecipe is invoked in a resolution exactly when the matcher
\* outcome is None; a resolution ended by the exact or the close tier never
\* invokes it nor sends a request; the tiers are entered in the order exact,
\* close, generate.
GenerationOnlyWhenNoMatch ==
    \A p \in Requests :
        /\ IsPrefix(tried[p], <<"exact", "close", "generate">>)
        /\ GenerationInvoked(p) => OutcomeNone(recipesDB, query[p])
        /\ sent[p] # <<>> => GenerationInvoked(p)
        /\ pc[p] = "done" =>
              /\ GenerationInvoked(p) <=> OutcomeNone(recipesDB, query[p])
              /\ tier[p] \in {"Exact", "Close"} => (~GenerationInvoked(p) /\ sent[p] = <<>>)

\* Two shared words out of seven: just under the threshold.
GenerationOnlyWhenNoMatchWitness ==
    \E p \in Requests :
        /\ pc[p] = "done"
        /\ query[p] = QueryTwoOfSeven
        /\ bestSim[p] = [num |-> 2, den |-> 7]
        /\ tried[p] = <<"exact", "close", "generate">>
        /\ sent[p] # <<>>

\* The failures of the generation client that section 7 lists.
ListedGenerationFailure(p) ==
    \/ env.LLM_ENDPOINT = ""
    \/ resp[p].kind = "error"
    \/ resp[p].kind = "response" /\ resp[p].status # StatusOK
    \/ resp[p].kind = "response" /\ ~resp[p].body.valid
    \/ resp[p].kind = "response" /\ deepseekKey[p] # "" /\ resp[p].body.choices = <<>>

\* C7: when GenerateRecipe fails, for whatever reason, resolveRecipe returns
\* a fallback recipe titled with the query, with empty ingredients, steps and
\* appliances, and no alternatives; no error reaches the caller.
GenerationFailureYieldsFallback ==
    \A p \in Requests :
        (/\ pc[p] = "done"
         /\ GenerationInvoked(p)
         /\ (gen[p].err # NoError \/ ListedGenerationFailure(p))) =>
            /\ tier[p] = "Generated"
            /\ result[p].primary.Title = query[p]
            /\ result[p].primary.Ingredients = <<>>
            /\ result[p].primary.Steps = <<>>
            /\ result[p].primary.Appliances = <<>>
            /\ result[p].alternatives = <<>>

\* The chat dialect answered with success status and no choices.
GenerationFailureYieldsFallbackWitness ==
    \E p \in Requests :
        /\ pc[p] = "done"
        /\ deepseekKey[p] # ""
        /\ resp[p] = HTTPResponse(StatusOK, DocEmptyObject)
        /\ gen[p].err = ErrNoChoices
        /\ query[p] = QueryChickenNoodleSoup
        /\ result[p].primary.Title = QueryChickenNoodleSoup

TerminalStates == {"Exact", "Close", "Generated"}

\* C8: a resolution enters each tier at most once, ends in exactly one of
\* Exact, Close, Generated, keeps that state and its result once it has them,
\* and always ends, whatever the provider does.
ResolutionEndsInOneTerminalState ==
    /\ [](\A p \in Requests :
            /\ pc[p] = "done" <=> tier[p] \in TerminalStates
            /\ pc[p] # "done" => tier[p] = "none"
            /\ pc[p] = "done" =>
                  tried[p] = CASE tier[p] = "Exact" -> <<"exact">>
                               [] tier[p] = "Close" -> <<"exact", "close">>
                               [] OTHER -> <<"exact", "close", "generate">>)
    /\ [][\A p \in Requests :
            (tier[p] \in TerminalStates /\ tier'[p] # "none") =>
                (tier'[p] = tier[p] /\ result'[p] = result[p])]_vars
    /\ \A p \in Requests : (pc[p] # "idle") ~> (pc[p] = "done")

\* The provider could not be reached, and the resolution ended all the same.
ResolutionEndsInOneTerminalStateWitness ==
    \E p \in Requests :
        /\ pc[p] = "done"
        /\ resp[p] = TransportFailure
        /\ tier[p] = "Generated"

\* C9: no step changes the corpus; a close match carries the marker on the
\* returned copy while the stored entry keeps its title.
CorpusNeverChanges ==
    /\ [][recipesDB' = recipesDB]_vars
    /\ [](\A p \in Requests :
            tier[p] = "Close" =>
                \E i \in DOMAIN recipesDB :
                    /\ recipesDB[i].ID = result[p].primary.ID
                    /\ result[p].primary.Title = recipesDB[i].Title \o CloseMatchMarker)

\* Two close matches in a row on the same entry.
CorpusNeverChangesWitness ==
    /\ calls = 2
    /\ recipesDB = SampleCorpus
    /\ \A p \in Requests :
        /\ pc[p] = "done"
        /\ tier[p] = "Close"
        /\ result[p].primary.Title = TitleChickenSalad \o CloseMatchMarker

\* C10: with LLM_ENDPOINT empty, GenerateRecipe returns the configuration
\* error and no recipe data, and no request is built or sent.
UnconfiguredEndpointFailsBeforeSend ==
    \A p \in Requests :
        (env.LLM_ENDPOINT = "" /\ GenerationInvoked(p)) =>
            /\ pc[p] \in {"returned", "done"}
            /\ gen[p].err = ErrEndpointNotSet
            /\ gen[p].recipe = EmptyGenRecipe
            /\ gen[p].alternatives = <<>>
            /\ sent[p] = <<>>
            /\ resp[p] = NoResponse

\* The credential is configured, the endpoint is not.
UnconfiguredEndpointFailsBeforeSendWitness ==
    \E p \in Requests :
        /\ pc[p] = "returned"
        /\ env = Environment("", "sk-key", "")
        /\ gen[p].err = ErrEndpointNotSet

----------------------------------------------------------------------------
(* The generation client: status, dialects, choices, fences *)

\* The provider answered the request of p and GenerateRecipe has returned.
Answered(p) == pc[p] \in {"returned", "done"} /\ resp[p].kind = "response"

\* The status codes HTTP counts as success: the 2xx class.
IsSuccessStatus(status) == status \div 100 = 2

\* C11 as stated: the upstream error is returned exactly when the status is
\* not a success status, so that no 2xx answer is reported as an upstream
\* error.
UpstreamErrorIffNonSuccessStatus ==
    \A p \in Requests :
        Answered(p) =>
            (gen[p].err = ErrNon200 <=> ~IsSuccessStatus(resp[p].status))

\* C11: GenerateRecipe returns the upstream error, with no recipe data taken
\* from the body, exactly when the endpoint answered with a status other than
\* 200; an answer with status 200 is never reported as an upstream error and
\* ends with the outcome of the dialect's parse.
UpstreamErrorIffStatusNot200 ==
    \A p \in Requests :
        /\ gen[p].err = ErrNon200 => Answered(p)
        /\ Answered(p) =>
              /\ gen[p].err = ErrNon200 <=> resp[p].status # StatusOK
              /\ resp[p].status # StatusOK =>
                    (gen[p].recipe = EmptyGenRecipe /\ gen[p].alternatives = <<>>)
              /\ resp[p].status = StatusOK =>
                    gen[p].err \in {NoError, ErrNoChoices, ErrDecode}

\* A 201 answer whose body is a complete envelope is an upstream error.
UpstreamErrorIffStatusNot200Witness ==
    \E p \in Requests :
        /\ pc[p] = "returned"
        /\ IsSuccessStatus(resp[p].status)
        /\ resp[p].status # StatusOK
        /\ resp[p].body = DocEnvelope
        /\ gen[p] = GenFailure(ErrNon200)

\* The envelope that a message content carries once fences and surrounding
\* white space are gone, for the contents a provider sends here.
EnvelopeIn(content) ==
    CASE content = ContentFenced -> DocEnvelope
      [] content = ContentBare -> DocEnvelope
      [] content = ContentMismatch -> DocTypeMismatch
      [] content = ContentEmptyObject -> DocEmptyObject
      [] OTHER -> DocUndecodable

\* The request body is {prompt} and no Authorization header is set.
IsPlainRequest(req, q) ==
    /\ req.header.Authorization = ""
    /\ DOMAIN req.body = {"prompt"}
    /\ req.body.prompt = Prompt(q)

\* The request body is a chat completion and the credential is the bearer token.
IsChatRequest(req, key, modelOverride, q) ==
    /\ req.header.Authorization = "Bearer " \o key
    /\ DOMAIN req.body = {"model", "messages", "stream"}
    /\ req.body.model = (IF modelOverride = "" THEN "deepseek-chat" ELSE modelOverride)
    /\ Len(req.body.messages) = 2
    /\ req.body.messages[1].role = "system"
    /\ req.body.messages[2].role = "user"
    /\ req.body.messages[2].content = Prompt(q)
    /\ req.body.stream = FALSE

\* The body itself was decoded as the envelope.
ParsedAsEnvelope(g, body) ==
    IF body.valid
    THEN g = GenSuccess(body.primary_recipe, body.alternative_recipes)
    ELSE g = GenFailure(ErrDecode)

\* The body was decoded as a choices wrapper and the envelope taken from the
\* content of a choice.
ParsedAsChoices(g, body) ==
    IF ~body.valid THEN g = GenFailure(ErrDecode)
    ELSE IF body.choices = <<>> THEN g = GenFailure(ErrNoChoices)
    ELSE \E i \in DOMAIN body.choices : ParsedAsEnvelope(g, EnvelopeIn(body.choices[i]))

\* C12: whether DEEPSEEK_API_KEY is set decides the dialect, and one call uses
\* the same dialect for its request and for its response.  Without it: body
\* {prompt}, no Authorization header, the 200 answer decoded as the envelope.
\* With it: chat body (model deepseek-chat unless DEEPSEEK_MODEL overrides,
\* system and user message, stream false), bearer Authorization header, the
\* 200 answer decoded as a choices wrapper.
DialectFollowsCredential ==
    \A p \in Requests :
        sent[p] # <<>> =>
            LET req == sent[p][1]
                ok == Answered(p) /\ resp[p].status = StatusOK
            IN  IF env.DEEPSEEK_API_KEY = ""
                THEN /\ IsPlainRequest(req, query[p])
                     /\ ok => ParsedAsEnvelope(gen[p], resp[p].body)
                ELSE /\ IsChatRequest(req, env.DEEPSEEK_API_KEY, env.DEEPSEEK_MODEL, query[p])
                     /\ ok => ParsedAsChoices(gen[p], resp[p].body)

\* Credential and model override set: the chat request names the override, and
\* the envelope comes out of the choice's content.
DialectFollowsCredentialWitness ==
    \E p \in Requests :
        /\ pc[p] = "returned"
        /\ env = Environment("http://llm.example/v1", "sk-key", "deepseek-reasoner")
        /\ sent[p][1].body.model = "deepseek-reasoner"
        /\ sent[p][1].header.Authorization = "Bearer sk-key"
        /\ resp[p] = HTTPResponse(StatusOK, DocChat(<<ContentBare>>))
        /\ gen[p] = GenSuccess(GenPizza, <<GenCalzone>>)

\* The chat dialect got a 200 answer that decodes as a choices wrapper.
ChatAnswered(p) ==
    /\ Answered(p)
    /\ env.DEEPSEEK_API_KEY # ""
    /\ resp[p].status = StatusOK
    /\ resp[p].body.valid

----------------------------------------------------------------------------
(* Fence stripping *)

Max(S) == CHOOSE x \in S : \A y \in S : y <= x

Positions(s, tok) == { i \in DOMAIN s : s[i] = tok }

Blank(tok) == tok \in {" ", "\n", "\t"}

\* s without its leading and trailing white space.
Trimmed(s) ==
    LET inked == { i \in DOMAIN s : ~Blank(s[i]) }
    IN  IF inked = {} THEN <<>> ELSE SubSeq(s, Min(inked), Max(inked))

OpensWithFence(s) == s # <<>> /\ s[1] = FenceMarker

\* s without its first line: what follows the first line break, if there is one.
WithoutFirstLine(s) ==
    IF Positions(s, "\n") = {} THEN s
    ELSE SubSeq(s, Min(Positions(s, "\n")) + 1, Len(s))

\* s up to its last fence marker, if there is one.
UpToLastFence(s) ==
    IF Positions(s, FenceMarker) = {} THEN s
    ELSE SubSeq(s, 1, Max(Positions(s, FenceMarker)) - 1)

\* The three steps as the claim lists them, one after the other.
StrippedAsStated(s) ==
    LET t == Trimmed(s)
        u == IF OpensWithFence(t) THEN WithoutFirstLine(t) ELSE t
    IN  Trimmed(UpToLastFence(u))

\* The last fence marker is looked for only in content that opens with one.
StrippedWhenFenced(s) ==
    LET t == Trimmed(s)
    IN  IF OpensWithFence(t) THEN Trimmed(UpToLastFence(WithoutFirstLine(t))) ELSE t

\* s is a fence line, a line break, a payload without surrounding white
\* space, a line break and a closing fence marker; the payload.
HasFencedForm(s) ==
    /\ Len(s) >= 4
    /\ s[1] = FenceMarker
    /\ s[Len(s)] = FenceMarker
    /\ s[Len(s) - 1] = "\n"
    /\ Min(Positions(s, "\n")) < Len(s) - 1

FencedPayload(s) == SubSeq(s, Min(Positions(s, "\n")) + 1, Len(s) - 2)

NoOuterSpace(s) == s = <<>> \/ (~Blank(s[1]) /\ ~Blank(s[Len(s)]))

\* The payload of fenced content comes back exactly, and an envelope parses.
FencedRoundTrip ==
    (fencePc = "done" /\ HasFencedForm(fenceIn) /\ NoOuterSpace(FencedPayload(fenceIn))) =>
        /\ fenceOut = FencedPayload(fenceIn)
        /\ FencedPayload(fenceIn) = <<"{envelope}">> => UnmarshalContent(fenceOut) = DocEnvelope

----------------------------------------------------------------------------
(* One attempt, no retry *)

\* The fallback recipe of resolveRecipe for query q.
IsFallback(r, q) ==
    /\ r.primary.Title = q
    /\ r.primary.Ingredients = <<>>
    /\ r.primary.Steps = <<>>
    /\ r.alternatives = <<>>

\* C15: a resolution sends at most one request; once an attempt has failed,
\* the next step of that resolution returns the fallback, without a further
\* request or a further answer, and the resolution does get there.
AtMostOneAttempt ==
    /\ [](\A p \in Requests : Len(sent[p]) <= 1)
    /\ [][\A p \in Requests :
            (pc[p] = "returned" /\ gen[p].err # NoError /\ pc'[p] # "returned") =>
                /\ pc'[p] = "done"
                /\ sent'[p] = sent[p]
                /\ resp'[p] = resp[p]
                /\ tier'[p] = "Generated"
                /\ IsFallback(result'[p], query[p])]_vars
    /\ \A p \in Requests :
            (pc[p] = "returned" /\ gen[p].err # NoError) ~>
                (pc[p] = "done" /\ Len(sent[p]) <= 1 /\ IsFallback(result[p], query[p]))

\* The provider answered 500 to the only request, and the fallback came back.
AtMostOneAttemptWitness ==
    \E p \in Requests :
        /\ pc[p] = "done"
        /\ Len(sent[p]) = 1
        /\ resp[p] = HTTPResponse(500, DocEnvelope)
        /\ gen[p].err = ErrNon200
        /\ IsFallback(result[p], query[p])

----------------------------------------------------------------------------
(* Concurrent resolutions *)

\* resolveRecipe run from its first line to its return with nothing in
\* between: corpus db, environment e, query q, answer r of the provider (used
\* only when a request is sent), id and now drawn by newRecipe.
resolveRecipeAlone(db, e, q, r, id, now) ==
    LET i == ExactMatch(db, q)
        m == BestMatch(db, q)
        rq == GenerateRecipeRequest(e, q)
        g == IF rq.err # NoError THEN GenFailure(rq.err)
             ELSE GenerateRecipeResult(e.DEEPSEEK_API_KEY, r)
        out == ResolveGenerated(g, q, id, now)
    IN  IF i # 0
        THEN [primary |-> db[i], alternatives |-> <<>>]
        ELSE IF MeetsThreshold(m.bestSim)
        THEN [primary |-> [m.best EXCEPT !.Title = CloseMatchTitle(@)], alternatives |-> <<>>]
        ELSE [primary |-> out.primary, alternatives |-> out.alternatives]

\* The resolution of p ended with the fallback, whose id newRecipe drew.
EndedInFallback(p) ==
    pc[p] = "done" /\ tier[p] = "Generated" /\ gen[p].err # NoError

\* C16: whatever the other resolution does in between, a resolution returns
\* what resolveRecipe returns when run alone on the same corpus, environment,
\* query and provider answer (the id of a fallback being the one drawn for it,
\* in no corpus entry and in no other fallback); and while one resolution
\* waits for the provider, the other can always take its next step.
ConcurrentResolutionsIndependent ==
    \A p \in Requests :
        /\ pc[p] = "done" =>
              result[p] = resolveRecipeAlone(recipesDB, env, query[p], resp[p],
                                             result[p].primary.ID, RequestTime)
        /\ EndedInFallback(p) =>
              /\ \A i \in DOMAIN recipesDB : recipesDB[i].ID # result[p].primary.ID
              /\ \A o \in Requests \ {p} :
                    EndedInFallback(o) => result[o].primary.ID # result[p].primary.ID
        /\ pc[p] = "awaiting" =>
              \A o \in Requests \ {p} :
                  /\ pc[o] \notin {"idle", "done"} => ENABLED Step(o)
                  /\ pc[o] = "done" => ENABLED HandlerReturn(o)

\* One resolution has returned a close match while the other still waits for
\* the provider, and both were started.
ConcurrentResolutionsIndependentWitness ==
    \E p, o \in Requests :
        /\ p # o
        /\ calls = 2
        /\ pc[o] = "awaiting"
        /\ pc[p] = "done"
        /\ tier[p] = "Close"
        /\ result[p].primary.Title = TitleChickenSalad \o CloseMatchMarker

----------------------------------------------------------------------------
(* Identifiers in a result *)

\* The recipes of a resolution result: the primary, then the alternatives.
RecipesOf(r) == <<r.primary>> \o r.alternatives

\* C17: in every result resolveRecipe returns, the identifiers of the primary
\* recipe and of the alternatives are pairwise distinct, results built from a
\* generation response included.
ResultIdentifiersDistinct ==
    \A p \in Requests :
        pc[p] = "done" =>
            \A i, j \in DOMAIN RecipesOf(result[p]) :
                i # j => RecipesOf(result[p])[i].ID # RecipesOf(result[p])[j].ID

----------------------------------------------------------------------------
(* Ties in the close tier *)

\* C18: when several corpus entries share the maximum similarity and the
\* close tier answers, the entry returned is the first of them in corpus
\* order.
CloseTierTieGoesToFirst ==
    \A p \in Requests :
        (pc[p] = "done" /\ OutcomeClose(recipesDB, query[p])) =>
            /\ tier[p] = "Close"
            /\ result[p].primary.ID = recipesDB[Min(MaxSimEntries(recipesDB, query[p]))].ID
            /\ result[p].primary.Title =
                  recipesDB[Min(MaxSimEntries(recipesDB, query[p]))].Title \o CloseMatchMarker

\* Three titles at similarity 1/2 from the query "chicken": the first one,
\* "Chicken Soup", is returned.
CloseTierTieGoesToFirstWitness ==
    \E p \in Requests :
        /\ pc[p] = "done"
        /\ recipesDB = TiedCorpus
        /\ query[p] = QueryChicken
        /\ MaxSimEntries(recipesDB, query[p]) = {1, 2, 3}
        /\ bestSim[p] = [num |-> 1, den |-> 2]
        /\ result[p].primary.ID = UUID(1)
        /\ result[p].primary.Title = TitleChickenSoup \o CloseMatchMarker

----------------------------------------------------------------------------
(* Undecodable envelopes *)

\* The text GenerateRecipe decodes as the envelope does not decode: the body
\* in the plain dialect, the first choice's content without its fences in the
\* chat dialect.
EnvelopeUndecodable(p) ==
    /\ Answered(p)
    /\ resp[p].status = StatusOK
    /\ IF env.DEEPSEEK_API_KEY = ""
       THEN ~resp[p].body.valid
       ELSE /\ resp[p].body.valid
            /\ resp[p].body.choices # <<>>
            /\ ~EnvelopeIn(resp[p].body.choices[1]).valid

\* C19: when the envelope text does not decode, GenerateRecipe returns the
\* malformed-response error and the zero recipe with no alternatives, whatever
\* the decoder had already filled in; the failure is never turned into a
\* success inside the client.
UndecodableEnvelopeIsAnError ==
    \A p \in Requests :
        EnvelopeUndecodable(p) =>
            /\ gen[p].err = ErrDecode
            /\ gen[p].recipe = EmptyGenRecipe
            /\ gen[p].alternatives = <<>>

\* The chat dialect: the first choice's content is an envelope whose
\* primary_recipe decodes and whose alternative_recipes does not.
UndecodableEnvelopeIsAnErrorWitness ==
    \E p \in Requests :
        /\ pc[p] = "returned"
        /\ EnvelopeUndecodable(p)
        /\ resp[p].body = DocChat(<<ContentMismatch, ContentBare>>)
        /\ UnmarshalContent(stripCodeFences(ContentMismatch)).primary_recipe = GenPizza
        /\ gen[p] = GenFailure(ErrDecode)

----------------------------------------------------------------------------
(* Generated recipes in the result *)

\* Time t is what the text s says, read as a full timestamp or else as a bare
\* date at midnight; a text of neither form puts no condition on t.
TimeReads(t, s) ==
    CASE s = "2024-01-02T03:04:05Z" -> t = [date |-> "2024-01-02", clock |-> "03:04:05"]
      [] s = "2024-01-02" -> t = [date |-> "2024-01-02", clock |-> "00:00:00"]
      [] OTHER -> TRUE

\* Recipe r of the result is the provider's recipe g.
SameRecipe(r, g) ==
    /\ r.ID = g.ID
    /\ r.Title = g.Title
    /\ r.Ingredients = g.Ingredients
    /\ r.Steps = g.Steps
    /\ r.NutritionalInfo = g.NutritionalInfo
    /\ r.AllergyDisclaimer = g.AllergyDisclaimer
    /\ r.Appliances = g.Appliances
    /\ TimeReads(r.CreatedAt, g.CreatedAt)
    /\ TimeReads(r.UpdatedAt, g.UpdatedAt)

\* C20: when GenerateRecipe succeeds, resolveRecipe returns the provider's
\* primary recipe and its alternatives, as many and in the same order, each
\* with its fields unchanged and its timestamps read as full timestamps or
\* else as bare dates; a timestamp of neither form leaves the result a
\* success.
GeneratedRecipesPassThrough ==
    \A p \in Requests :
        (pc[p] = "done" /\ GenerationInvoked(p) /\ gen[p].err = NoError) =>
            /\ tier[p] = "Generated"
            /\ SameRecipe(result[p].primary, gen[p].recipe)
            /\ Len(result[p].alternatives) = Len(gen[p].alternatives)
            /\ \A k \in DOMAIN gen[p].alternatives :
                  SameRecipe(result[p].alternatives[k], gen[p].alternatives[k])

\* The primary recipe carries a full timestamp and a bare date, the
\* alternative a created-at of neither form.
GeneratedRecipesPassThroughWitness ==
    \E p \in Requests :
        /\ pc[p] = "done"
        /\ gen[p] = GenSuccess(GenPizza, <<GenCalzone>>)
        /\ result[p].primary.Title = TitlePizza
        /\ result[p].primary.UpdatedAt = [date |-> "2024-01-02", clock |-> "00:00:00"]
        /\ Len(result[p].alternatives) = 1
        /\ result[p].alternatives[1].ID = GenCalzone.ID
        /\ GenCalzone.CreatedAt = "yesterday"
        /\ result[p].alternatives[1].CreatedAt = ZeroTime

----------------------------------------------------------------------------
(* Same words, different text *)

\* q and title have the same, non-empty, word set.
SameWordsOf(q, title) == WordSet(q) = WordSet(title) /\ WordSet(q) # {}

\* Worked out once for the queries and corpus titles that occur, and looked
\* up; for any other pair it is worked out on the spot.
SameWordsMemo ==
    {[q |-> q, title |-> title, same |-> SameWordsOf(q, title)] :
        q \in Queries, title \in CorpusTitles}

SameWords(q, title) ==
    IF \E e \in SameWordsMemo : e.q = q /\ e.title = title
    THEN (CHOOSE e \in SameWordsMemo : e.q = q /\ e.title = title).same
    ELSE SameWordsOf(q, title)

\* Some corpus title has the words of q and differs from q as a text, even
\* ignoring case.
SameWordsOtherText(db, q) ==
    \E i \in DOMAIN db :
        SameWords(q, db[i].Title) /\ ~SameIgnoringCase(db[i].Title, q)

----------------------------------------------------------------------------
(* An envelope without a recipe *)

\* The document GenerateRecipe decodes as the envelope: the body in the plain
\* dialect, the first choice's content in the chat dialect.
EnvelopeOf(p) ==
    IF env.DEEPSEEK_API_KEY = "" THEN resp[p].body
    ELSE IF resp[p].body.valid /\ resp[p].body.choices # <<>>
    THEN EnvelopeIn(resp[p].body.choices[1])
    ELSE DocUndecodable

\* The provider answered 200 and the envelope is a JSON object that decodes
\* and has no primary_recipe, or one without fields.
EnvelopeLacksRecipe(p) ==
    /\ Answered(p)
    /\ resp[p].status = StatusOK
    /\ EnvelopeOf(p).valid
    /\ EnvelopeOf(p).primary_recipe = EmptyGenRecipe

====
